---- MODULE Spec2Model ----
(***************************************************************************)
(* Model of data-uri-utils (src/src/lib.rs): svg_str_to_data_uri and the   *)
(* two raster encoders image_to_png_data_uri / image_to_jpeg_data_uri.     *)
(*                                                                         *)
(* A Rust str is modelled as what it is: a sequence of UTF-8 bytes.        *)
(* Characters are code points (integers); output strings are sequences of  *)
(* ASCII byte values.  A call that unwinds is the outcome Panic.           *)
(***************************************************************************)
EXTENDS Integers, Sequences, FiniteSets, TLC

\* ------------------------------------------------------------- bounds
\* longest input text, in characters
MaxLen == 4
\* longest byte buffer the codec leaves behind
MaxEnc == 4
\* number of threads calling svg_str_to_data_uri concurrently
NumThreads == 2

\* ------------------------------------------------------ text primitives
\* the byte-order mark '\u{FEFF}' of lib.rs line 14
BOM == 65279

\* The characters input texts are built from: 'a', '9', '.', ' ', '\t', '\n',
\* U+00A0 (a two-byte Unicode white space), U+00E9 (a two-byte letter that is
\* not ASCII) and U+FEFF (three bytes).
Alphabet == {97, 57, 46, 32, 9, 10, 160, 233, BOM}

\* char::encode_utf8: the UTF-8 bytes of one code point.
Utf8Char(c) ==
    IF c < 128 THEN <<c>>
    ELSE IF c < 2048 THEN <<192 + (c \div 64), 128 + (c % 64)>>
    ELSE IF c < 65536
         THEN <<224 + (c \div 4096), 128 + ((c \div 64) % 64), 128 + (c % 64)>>
    ELSE <<240 + (c \div 262144), 128 + ((c \div 4096) % 64),
           128 + ((c \div 64) % 64), 128 + (c % 64)>>

\* The concatenation of the strings of ss, in order.
RECURSIVE Concat(_)
Concat(ss) ==
    IF ss = <<>> THEN <<>>
    ELSE IF Len(ss) = 1 THEN ss[1]
    ELSE LET half == Len(ss) \div 2
         IN  Concat(SubSeq(ss, 1, half)) \o Concat(SubSeq(ss, half + 1, Len(ss)))

\* The str holding the characters cs.
Utf8(cs) == Concat([i \in 1..Len(cs) |-> Utf8Char(cs[i])])

\* Width of the UTF-8 sequence a leading byte announces.
Utf8Width(b) == IF b < 128 THEN 1 ELSE IF b < 224 THEN 2 ELSE IF b < 240 THEN 3 ELSE 4

\* The code point whose UTF-8 sequence starts at byte i of s.
CharAt(s, i) ==
    LET w == Utf8Width(s[i])
    IN  IF w = 1 THEN s[i]
        ELSE IF w = 2 THEN (s[i] - 192) * 64 + (s[i + 1] - 128)
        ELSE IF w = 3
             THEN (s[i] - 224) * 4096 + (s[i + 1] - 128) * 64 + (s[i + 2] - 128)
        ELSE (s[i] - 240) * 262144 + (s[i + 1] - 128) * 4096
             + (s[i + 2] - 128) * 64 + (s[i + 3] - 128)

\* str::chars: the code points of a str (valid UTF-8), front to back: one at
\* every byte that is not a continuation byte (10xxxxxx).
Chars(s) ==
    Concat([i \in 1..Len(s) |->
               IF s[i] < 128 \/ s[i] >= 192 THEN <<CharAt(s, i)>> ELSE <<>>])

\* str::is_char_boundary: index 0, the end, or a byte that is no continuation
\* byte (10xxxxxx).
IsCharBoundary(s, index) ==
    IF index = 0 THEN TRUE
    ELSE IF index >= Len(s) THEN index = Len(s)
    ELSE s[index + 1] < 128 \/ s[index + 1] >= 192

\* Outcomes of a call: a value, or an unwinding panic.
Ok(v) == [panic |-> FALSE, val |-> v]
Panic == [panic |-> TRUE, val |-> <<>>]

\* &string[begin..]: the bytes from offset begin on; panics when begin is not
\* a character boundary of the str.
StrSliceFrom(s, begin) ==
    IF IsCharBoundary(s, begin) THEN Ok(SubSeq(s, begin + 1, Len(s))) ELSE Panic

\* char::is_whitespace: the Unicode White_Space code points.
IsWhitespace(c) ==
    \/ c \in 9..13
    \/ c \in {32, 133, 160, 5760, 8232, 8233, 8239, 8287, 12288}
    \/ c \in 8192..8202

\* ------------------------------------------------------ SvgDataUriUtils
\* trim_byte_order_mark: when the first char is U+FEFF, the str from byte
\* offset 1 on; otherwise the str itself.
trim_byte_order_mark(string) ==
    IF string # <<>> /\ Head(Chars(string)) = BOM
    THEN StrSliceFrom(string, 1)
    ELSE Ok(string)

\* The smallest and the largest member of a non-empty set of numbers.
Min(S) == CHOOSE x \in S : \A y \in S : x <= y
Max(S) == CHOOSE x \in S : \A y \in S : y <= x

\* A trim that strips only the space character, as trim_matches(' ') would.
trim_spaces_only(string) ==
    LET cs == Chars(string)
        kept == {i \in 1..Len(cs) : cs[i] # 32}
    IN  IF kept = {} THEN <<>> ELSE Utf8(SubSeq(cs, Min(kept), Max(kept)))

\* str::trim: the str between its first and its last character that is not
\* white space; empty when there is none.
trim(string) ==
    LET cs == Chars(string)
        kept == {i \in 1..Len(cs) : ~IsWhitespace(cs[i])}
    IN  IF kept = {} THEN <<>> ELSE Utf8(SubSeq(cs, Min(kept), Max(kept)))

\* The class \s of WHITESPACES_REGEX (Unicode-aware: White_Space).
RegexSpace(c) ==
    \/ c \in 9..13
    \/ c \in {32, 133, 160, 5760, 8232, 8233, 8239, 8287, 12288}
    \/ c \in 8192..8202

\* The compiled pattern: the value WHITESPACES_REGEX holds once initialized.
WhitespacesPattern == "\\s+"

\* The same replacement for the pattern \s (no +): one space per character.
collapse_each_whitespace(string) ==
    LET cs == Chars(string)
    IN  Utf8([i \in 1..Len(cs) |-> IF RegexSpace(cs[i]) THEN 32 ELSE cs[i]])

\* Regex::replace_all(text, " ") for the pattern \s+: every maximal run of \s
\* characters (a match starts at a \s character not preceded by one and takes
\* all that follow) becomes one space; the other characters are copied.
collapse_whitespace(string) ==
    LET cs == Chars(string)
    IN  Utf8(Concat([i \in 1..Len(cs) |->
            IF ~RegexSpace(cs[i]) THEN <<cs[i]>>
            ELSE IF i > 1 /\ RegexSpace(cs[i - 1]) THEN <<>>
            ELSE <<32>>]))

\* The bytes a URI-component encoder leaves raw: alphanumerics and - . _ ~
IsUnreserved(b) ==
    b \in 48..57 \/ b \in 65..90 \/ b \in 97..122 \/ b \in {45, 46, 95, 126}

\* The ASCII alphanumerics: the bytes outside NON_ALPHANUMERIC.
IsAsciiAlphanumeric(b) == b \in 48..57 \/ b \in 65..90 \/ b \in 97..122

\* One uppercase hexadecimal digit.
HexDigit(n) == IF n < 10 THEN 48 + n ELSE 55 + n

\* percent_encoding::percent_encode_byte: "%XX".
PercentEncodeByte(b) == <<37, HexDigit(b \div 16), HexDigit(b % 16)>>

\* utf8_percent_encode(string, NON_ALPHANUMERIC).collect(): byte by byte.
encode_uri_components(string) ==
    Concat([i \in 1..Len(string) |->
               IF IsAsciiAlphanumeric(string[i])
               THEN <<string[i]>>
               ELSE PercentEncodeByte(string[i])])

\* "data:image/svg+xml,"
SvgPrefix ==
    <<100, 97, 116, 97, 58, 105, 109, 97, 103, 101, 47, 115, 118, 103, 43,
      120, 109, 108, 44>>

\* svg_str_to_data_uri: the format! of lines 32-38.
svg_str_to_data_uri(svg) ==
    LET stripped == trim_byte_order_mark(svg)
    IN  IF stripped.panic THEN Panic
        ELSE Ok(SvgPrefix
                \o encode_uri_components(collapse_whitespace(trim(stripped.val))))

\* The input and the expected output of tests::full_test.
FullTestSvg ==
    <<
      10, 32, 32, 32, 32, 32, 32, 32, 32, 32, 32, 32, 32, 60, 115, 118,
      103, 32, 120, 109, 108, 110, 115, 61, 34, 104, 116, 116, 112, 58, 47, 47,
      119, 119, 119, 46, 119, 51, 46, 111, 114, 103, 47, 50, 48, 48, 48, 47,
      115, 118, 103, 34, 32, 118, 105, 101, 119, 66, 111, 120, 61, 34, 48, 32,
      48, 32, 53, 48, 32, 53, 48, 34, 62, 10, 32, 32, 32, 32, 32, 32,
      32, 32, 32, 32, 32, 32, 32, 32, 32, 32, 60, 112, 97, 116, 104, 32,
      100, 61, 34, 77, 50, 50, 32, 51, 56, 86, 53, 49, 76, 51, 50, 32,
      51, 50, 108, 49, 57, 45, 49, 57, 118, 49, 50, 67, 52, 52, 32, 50,
      54, 32, 52, 51, 32, 49, 48, 32, 51, 56, 32, 48, 32, 53, 50, 32,
      49, 53, 32, 52, 57, 32, 51, 57, 32, 50, 50, 32, 51, 56, 122, 34,
      47, 62, 10, 32, 32, 32, 32, 32, 32, 32, 32, 32, 32, 32, 32, 60,
      47, 115, 118, 103, 62>>

FullTestExpected ==
    <<
      100, 97, 116, 97, 58, 105, 109, 97, 103, 101, 47, 115, 118, 103, 43, 120,
      109, 108, 44, 37, 51, 67, 115, 118, 103, 37, 50, 48, 120, 109, 108, 110,
      115, 37, 51, 68, 37, 50, 50, 104, 116, 116, 112, 37, 51, 65, 37, 50,
      70, 37, 50, 70, 119, 119, 119, 37, 50, 69, 119, 51, 37, 50, 69, 111,
      114, 103, 37, 50, 70, 50, 48, 48, 48, 37, 50, 70, 115, 118, 103, 37,
      50, 50, 37, 50, 48, 118, 105, 101, 119, 66, 111, 120, 37, 51, 68, 37,
      50, 50, 48, 37, 50, 48, 48, 37, 50, 48, 53, 48, 37, 50, 48, 53,
      48, 37, 50, 50, 37, 51, 69, 37, 50, 48, 37, 51, 67, 112, 97, 116,
      104, 37, 50, 48, 100, 37, 51, 68, 37, 50, 50, 77, 50, 50, 37, 50,
      48, 51, 56, 86, 53, 49, 76, 51, 50, 37, 50, 48, 51, 50, 108, 49,
      57, 37, 50, 68, 49, 57, 118, 49, 50, 67, 52, 52, 37, 50, 48, 50,
      54, 37, 50, 48, 52, 51, 37, 50, 48, 49, 48, 37, 50, 48, 51, 56,
      37, 50, 48, 48, 37, 50, 48, 53, 50, 37, 50, 48, 49, 53, 37, 50,
      48, 52, 57, 37, 50, 48, 51, 57, 37, 50, 48, 50, 50, 37, 50, 48,
      51, 56, 122, 37, 50, 50, 37, 50, 70, 37, 51, 69, 37, 50, 48, 37,
      51, 67, 37, 50, 70, 115, 118, 103, 37, 51, 69>>

\* ------------------------------------------------------ raster encoders
\* "data:"
DataScheme == <<100, 97, 116, 97, 58>>
\* "image/png"
IMAGE_PNG == <<105, 109, 97, 103, 101, 47, 112, 110, 103>>
\* "image/jpeg"
IMAGE_JPEG == <<105, 109, 97, 103, 101, 47, 106, 112, 101, 103>>
\* ";base64,"
Base64Marker == <<59, 98, 97, 115, 101, 54, 52, 44>>

\* One character of the standard base64 alphabet.
Base64Char(n) ==
    IF n < 26 THEN 65 + n
    ELSE IF n < 52 THEN 97 + (n - 26)
    ELSE IF n < 62 THEN 48 + (n - 52)
    ELSE IF n = 62 THEN 43 ELSE 47

\* base64::encode: standard alphabet, '=' padding, no line wraps.
RECURSIVE base64_encode(_)
base64_encode(bytes) ==
    IF bytes = <<>> THEN <<>>
    ELSE IF Len(bytes) = 1
         THEN <<Base64Char(bytes[1] \div 4), Base64Char((bytes[1] % 4) * 16), 61, 61>>
    ELSE IF Len(bytes) = 2
         THEN <<Base64Char(bytes[1] \div 4),
                Base64Char((bytes[1] % 4) * 16 + bytes[2] \div 16),
                Base64Char((bytes[2] % 16) * 4), 61>>
    ELSE <<Base64Char(bytes[1] \div 4),
           Base64Char((bytes[1] % 4) * 16 + bytes[2] \div 16),
           Base64Char((bytes[2] % 16) * 4 + bytes[3] \div 64),
           Base64Char(bytes[3] % 64)>>
         \o base64_encode(SubSeq(bytes, 4, Len(bytes)))

\* An ImageResult<String>: Ok(string) or Err(error).
OkString(v) == [kind |-> "ok", val |-> v, err |-> "none"]
Err(e) == [kind |-> "err", val |-> <<>>, err |-> e]
NoReturn == [kind |-> "none", val |-> <<>>, err |-> "none"]

\* The byte values the codec writes, and the buffers it may leave behind.
EncodedBytes == {0, 137, 255}

RECURSIVE Buffers(_)
Buffers(n) ==
    IF n = 0 THEN {<<>>}
    ELSE LET shorter == Buffers(n - 1)
         IN  shorter \cup {Append(b, x) : b \in {u \in shorter : Len(u) = n - 1},
                                          x \in EncodedBytes}

\* What a call of the external codec (PngEncoder::write_image,
\* JpegEncoder::encode_image) may come back with: Ok(()) or an ImageError, the
\* buffer holding whatever was written until then.
CodecOutcomes ==
    {[err |-> e, written |-> b] : e \in {"none", "Encoding", "Unsupported"},
                                  b \in Buffers(MaxEnc)}

\* image_to_png_data_uri with the error of write_image dropped instead of
\* propagated by `?`.
image_to_png_data_uri_unchecked(encoded) ==
    OkString(DataScheme \o IMAGE_PNG \o Base64Marker \o base64_encode(encoded.written))

\* image_to_png_data_uri, given what write_image came back with.
image_to_png_data_uri(encoded) ==
    IF encoded.err # "none" THEN Err(encoded.err)
    ELSE OkString(DataScheme \o IMAGE_PNG \o Base64Marker
                  \o base64_encode(encoded.written))

\* image_to_jpeg_data_uri, given what encode_image came back with.
image_to_jpeg_data_uri(encoded) ==
    IF encoded.err # "none" THEN Err(encoded.err)
    ELSE OkString(DataScheme \o IMAGE_JPEG \o Base64Marker
                  \o base64_encode(encoded.written))

\* ---------------------------------------------------------------- state
VARIABLES
    svg,          \* the argument of the call, a str
    pc,           \* "start", "returned" or "panicked"
    result,       \* the String returned
    original,     \* the str the normalization step starts from
    text,         \* the str after the applications so far
    applied,      \* how many times the step has been applied
    image,        \* the pixel buffer passed to a raster encoder
    quality,      \* the quality passed to image_to_jpeg_data_uri
    called,       \* "none", "png" or "jpeg": the raster function called
    codec,        \* what the codec came back with
    encoderCalls, \* how often the codec was invoked
    ret,          \* the ImageResult returned
    onceState,    \* WHITESPACES_REGEX: "incomplete", "running" or "complete"
    onceValue,    \* WHITESPACES_REGEX: the value stored
    inits,        \* how often the initializer of WHITESPACES_REGEX ran
    tpc,          \* per thread: where its call stands
    targ,         \* per thread: the argument of its call
    ttmp,         \* per thread: the trimmed str
    tre,          \* per thread: the pattern obtained from WHITESPACES_REGEX
    tres          \* per thread: the String returned

svgVars == <<svg, pc, result>>
normalizeVars == <<original, text, applied>>
imageVars == <<image, quality, called, codec, encoderCalls, ret>>
lazyVars == <<onceState, onceValue, inits, tpc, targ, ttmp, tre, tres>>
vars == <<svgVars, normalizeVars, imageVars, lazyVars>>

\* All texts of at most n characters over the alphabet.
RECURSIVE Texts(_)
Texts(n) ==
    IF n = 0 THEN {<<>>}
    ELSE LET shorter == Texts(n - 1)
         IN  shorter \cup {Append(t, c) : t \in {u \in shorter : Len(u) = n - 1},
                                          c \in Alphabet}

Inputs == {Utf8(t) : t \in Texts(MaxLen)}

Threads == 1..NumThreads

\* The value of a Lazy that has not been initialized.
Uninit == "uninit"

\* The variables a specification does not use stay at these values.
SvgIdle == svg = <<>> /\ pc = "idle" /\ result = <<>>
NormalizeIdle == original = <<>> /\ text = <<>> /\ applied = 0
ImageIdle ==
    /\ image = [width |-> 0, height |-> 0, bytes |-> <<>>]
    /\ quality = 0
    /\ called = "idle"
    /\ codec = [err |-> "none", written |-> <<>>]
    /\ encoderCalls = 0
    /\ ret = NoReturn
LazyIdle ==
    /\ onceState = "incomplete"
    /\ onceValue = Uninit
    /\ inits = 0
    /\ tpc = <<>>
    /\ targ = <<>>
    /\ ttmp = <<>>
    /\ tre = <<>>
    /\ tres = <<>>

\* ------------------------------------------- Spec: svg_str_to_data_uri
Init ==
    /\ svg \in Inputs
    /\ pc = "start"
    /\ result = <<>>
    /\ NormalizeIdle
    /\ ImageIdle
    /\ LazyIdle

\* One call of svg_str_to_data_uri(svg).
CallSvgStrToDataUri ==
    /\ pc = "start"
    /\ LET r == svg_str_to_data_uri(svg)
       IN  /\ pc' = IF r.panic THEN "panicked" ELSE "returned"
           /\ result' = r.val
    /\ UNCHANGED <<svg, normalizeVars, imageVars, lazyVars>>

Next == CallSvgStrToDataUri

Spec == Init /\ [][Next]_vars

\* ------------------------------------- SpecFullTest: tests::full_test
InitFullTest ==
    /\ svg = FullTestSvg
    /\ pc = "start"
    /\ result = <<>>
    /\ NormalizeIdle
    /\ ImageIdle
    /\ LazyIdle

SpecFullTest == InitFullTest /\ [][Next]_vars

\* assert_eq!(result, expected)
FullTestPasses == pc # "start" => (pc = "returned" /\ result = FullTestExpected)

\* --------------------------- SpecNormalize: the trim + collapse step
\* .trim().collapse_whitespace() of lines 35-36.
normalize(string) == collapse_whitespace(trim(string))

InitNormalize ==
    /\ original \in Inputs
    /\ text = original
    /\ applied = 0
    /\ SvgIdle
    /\ ImageIdle
    /\ LazyIdle

\* Apply the normalization step to the text once more.
ApplyNormalize ==
    /\ applied < 2
    /\ text' = normalize(text)
    /\ applied' = applied + 1
    /\ UNCHANGED <<original, svgVars, imageVars, lazyVars>>

NextNormalize == ApplyNormalize

SpecNormalize == InitNormalize /\ [][NextNormalize]_vars

\* ------------------------------------ SpecImage: the raster encoders
Images ==
    {[width |-> w, height |-> 1, bytes |-> b] : w \in 1..2,
                                                b \in {<<255, 0, 0>>, <<>>}}

InitImage ==
    /\ image \in Images
    /\ quality \in {10, 90}
    /\ called = "none"
    /\ codec = [err |-> "none", written |-> <<>>]
    /\ encoderCalls = 0
    /\ ret = NoReturn
    /\ SvgIdle
    /\ NormalizeIdle
    /\ LazyIdle

\* One call of image_to_png_data_uri(&image): write_image runs once, then the
\* function returns.
CallImageToPngDataUri ==
    /\ called = "none"
    /\ \E encoded \in CodecOutcomes :
          /\ codec' = encoded
          /\ ret' = image_to_png_data_uri(encoded)
    /\ encoderCalls' = encoderCalls + 1
    /\ called' = "png"
    /\ UNCHANGED <<image, quality, svgVars, normalizeVars, lazyVars>>

\* One call of image_to_jpeg_data_uri(&image, quality).
CallImageToJpegDataUri ==
    /\ called = "none"
    /\ \E encoded \in CodecOutcomes :
          /\ codec' = encoded
          /\ ret' = image_to_jpeg_data_uri(encoded)
    /\ encoderCalls' = encoderCalls + 1
    /\ called' = "jpeg"
    /\ UNCHANGED <<image, quality, svgVars, normalizeVars, lazyVars>>

NextImage == CallImageToPngDataUri \/ CallImageToJpegDataUri

SpecImage == InitImage /\ [][NextImage]_vars

\* --------------------- SpecLazy: concurrent calls of svg_str_to_data_uri
\* The arguments of the concurrent calls: " a\n\na", "\u{FEFF}a" and "a.".
LazyInputs == {<<32, 97, 10, 10, 97>>, <<239, 187, 191, 97>>, <<97, 46>>}

InitLazy ==
    /\ onceState = "incomplete"
    /\ onceValue = Uninit
    /\ inits = 0
    /\ targ \in [Threads -> LazyInputs]
    /\ tpc = [t \in Threads |-> "start"]
    /\ ttmp = [t \in Threads |-> <<>>]
    /\ tre = [t \in Threads |-> Uninit]
    /\ tres = [t \in Threads |-> <<>>]
    /\ SvgIdle
    /\ NormalizeIdle
    /\ ImageIdle

\* svg.trim_byte_order_mark().trim(): local to the thread.
Enter(t) ==
    /\ tpc[t] = "start"
    /\ LET stripped == trim_byte_order_mark(targ[t])
       IN  IF stripped.panic
           THEN /\ tpc' = [tpc EXCEPT ![t] = "panicked"]
                /\ UNCHANGED ttmp
           ELSE /\ tpc' = [tpc EXCEPT ![t] = "force"]
                /\ ttmp' = [ttmp EXCEPT ![t] = trim(stripped.val)]
    /\ UNCHANGED <<onceState, onceValue, inits, targ, tre, tres>>
    /\ UNCHANGED <<svgVars, normalizeVars, imageVars>>

\* A cell that is not synchronized: whoever finds it not complete initializes.
ForceUnsync(t) ==
    /\ tpc[t] = "force"
    /\ \/ /\ onceState = "complete"
          /\ tre' = [tre EXCEPT ![t] = onceValue]
          /\ tpc' = [tpc EXCEPT ![t] = "replace"]
          /\ UNCHANGED onceState
       \/ /\ onceState # "complete"
          /\ onceState' = "running"
          /\ tpc' = [tpc EXCEPT ![t] = "init"]
          /\ UNCHANGED tre
    /\ UNCHANGED <<onceValue, inits, targ, ttmp, tres>>
    /\ UNCHANGED <<svgVars, normalizeVars, imageVars>>

\* The deref of WHITESPACES_REGEX (Lazy::force): a complete cell is read; an
\* incomplete one is claimed by exactly one thread, which will initialize it;
\* while it is running, the others wait.
Force(t) ==
    /\ tpc[t] = "force"
    /\ \/ /\ onceState = "complete"
          /\ tre' = [tre EXCEPT ![t] = onceValue]
          /\ tpc' = [tpc EXCEPT ![t] = "replace"]
          /\ UNCHANGED onceState
       \/ /\ onceState = "incomplete"
          /\ onceState' = "running"
          /\ tpc' = [tpc EXCEPT ![t] = "init"]
          /\ UNCHANGED tre
    /\ UNCHANGED <<onceValue, inits, targ, ttmp, tres>>
    /\ UNCHANGED <<svgVars, normalizeVars, imageVars>>

\* The initializer || Regex::new(r"\s+").unwrap() runs and its value is stored.
Initialize(t) ==
    /\ tpc[t] = "init"
    /\ onceValue' = WhitespacesPattern
    /\ inits' = inits + 1
    /\ tpc' = [tpc EXCEPT ![t] = "publish"]
    /\ UNCHANGED <<onceState, targ, ttmp, tre, tres>>
    /\ UNCHANGED <<svgVars, normalizeVars, imageVars>>

\* The cell is marked complete and the waiting threads are released.
Publish(t) ==
    /\ tpc[t] = "publish"
    /\ onceState' = "complete"
    /\ tpc' = [tpc EXCEPT ![t] = "force"]
    /\ UNCHANGED <<onceValue, inits, targ, ttmp, tre, tres>>
    /\ UNCHANGED <<svgVars, normalizeVars, imageVars>>

\* What replace_all gives with the pattern obtained: with a value that was
\* never initialized the read is undefined, and any text may come out.
ReplaceAllResults(re, string) ==
    IF re = WhitespacesPattern
    THEN {collapse_whitespace(string)}
    ELSE {<<>>, string, collapse_whitespace(string)}

\* replace_all, encode_uri_components and format!: the call returns.
Replace(t) ==
    /\ tpc[t] = "replace"
    /\ \E collapsed \in ReplaceAllResults(tre[t], ttmp[t]) :
          tres' = [tres EXCEPT ![t] = SvgPrefix \o encode_uri_components(collapsed)]
    /\ tpc' = [tpc EXCEPT ![t] = "returned"]
    /\ UNCHANGED <<onceState, onceValue, inits, targ, ttmp, tre>>
    /\ UNCHANGED <<svgVars, normalizeVars, imageVars>>

NextLazy ==
    \E t \in Threads :
        Enter(t) \/ Force(t) \/ Initialize(t) \/ Publish(t) \/ Replace(t)

SpecLazy == InitLazy /\ [][NextLazy]_vars

\* ------------------------------------------------- reading an output
\* The letters and digits of ASCII, as the specification names them.
LetterOrDigit(b) == (48 <= b /\ b <= 57) \/ (65 <= b /\ b <= 90) \/ (97 <= b /\ b <= 122)

\* The value of an uppercase hexadecimal digit, -1 for any other byte.
HexValue(d) ==
    IF 48 <= d /\ d <= 57 THEN d - 48 ELSE IF 65 <= d /\ d <= 70 THEN d - 55 ELSE -1

\* Whether p starts with an escape %XX of two uppercase hexadecimal digits.
StartsWithEscape(p) ==
    Len(p) >= 3 /\ p[1] = 37 /\ HexValue(p[2]) >= 0 /\ HexValue(p[3]) >= 0

\* A payload made only of letters, digits and %XX escapes, no escape standing
\* for a letter or a digit.
RECURSIVE WellFormedPayload(_)
WellFormedPayload(p) ==
    IF p = <<>> THEN TRUE
    ELSE IF LetterOrDigit(p[1]) THEN WellFormedPayload(Tail(p))
    ELSE /\ StartsWithEscape(p)
         /\ ~LetterOrDigit(HexValue(p[2]) * 16 + HexValue(p[3]))
         /\ WellFormedPayload(SubSeq(p, 4, Len(p)))

\* The bytes a well-formed payload stands for.
RECURSIVE PercentDecode(_)
PercentDecode(p) ==
    IF p = <<>> THEN <<>>
    ELSE IF StartsWithEscape(p)
         THEN <<HexValue(p[2]) * 16 + HexValue(p[3])>>
              \o PercentDecode(SubSeq(p, 4, Len(p)))
    ELSE <<p[1]>> \o PercentDecode(Tail(p))

\* Whether string q starts with string p.
StartsWith(q, p) == Len(q) >= Len(p) /\ SubSeq(q, 1, Len(p)) = p

\* Whether string q ends with string p.
EndsWith(q, p) == Len(q) >= Len(p) /\ SubSeq(q, Len(q) - Len(p) + 1, Len(q)) = p

\* What follows the first n bytes of q.
After(q, n) == SubSeq(q, n + 1, Len(q))

\* How often pat occurs in p.
Occurrences(p, pat) ==
    Cardinality({i \in 1..Len(p) : StartsWith(After(p, i - 1), pat)})

\* The payload of a returned data URI.
Payload == After(result, Len(SvgPrefix))

\* "%EF%BB%BF", "%20"
BomEscape == <<37, 69, 70, 37, 66, 66, 37, 66, 70>>
SpaceEscape == <<37, 50, 48>>

\* White space as the specification lists it: space, tab, newline, carriage
\* return and the other Unicode white-space code points.
WhiteSpaceChar(c) ==
    c \in {9, 10, 11, 12, 13, 32, 133, 160, 5760, 8192, 8193, 8194, 8195, 8196,
           8197, 8198, 8199, 8200, 8201, 8202, 8232, 8233, 8239, 8287, 12288}

\* The characters of the call's argument.
SvgChars == Chars(svg)
LeadingBom == SvgChars # <<>> /\ SvgChars[1] = BOM

\* The argument without its first character when that is U+FEFF.
WithoutLeadingBom == IF LeadingBom THEN Utf8(Tail(SvgChars)) ELSE svg

\* The four steps after BOM stripping, in the specification's order.
Pipeline(string) ==
    SvgPrefix \o encode_uri_components(collapse_whitespace(trim(string)))

\* ---------------------------------------------------------------- claims
\* C1: for an input whose first character is U+FEFF the call returns what it
\* returns for the input without that character, and the payload does not
\* start with %EF%BB%BF.
C1_BomDropped ==
    (pc # "start" /\ LeadingBom) =>
        /\ pc = "returned"
        /\ ~svg_str_to_data_uri(WithoutLeadingBom).panic
        /\ result = svg_str_to_data_uri(WithoutLeadingBom).val
        /\ ~StartsWith(Payload, BomEscape)

\* C2: svg_str_to_data_uri is total: no call ends in a panic.
C2_Total == pc # "panicked"

\* C3: every call returns "data:image/svg+xml," followed by the percent-encoded,
\* collapsed, trimmed, BOM-stripped input.
C3_Pipeline ==
    pc # "start" => (pc = "returned" /\ result = Pipeline(WithoutLeadingBom))

\* C4: the payload holds only letters, digits and uppercase %XX escapes; letters
\* and digits of the normalized input stay raw and in order, every other byte of
\* its UTF-8 encoding is one escape.
C4_PayloadShape ==
    pc = "returned" =>
        /\ StartsWith(result, SvgPrefix)
        /\ WellFormedPayload(Payload)
        /\ PercentDecode(Payload) = normalize(trim_byte_order_mark(svg).val)

C4_Witness ==
    /\ pc = "returned"
    /\ \E i \in 1..Len(SvgChars) : SvgChars[i] = 233
    /\ \E i \in 1..Len(SvgChars) : SvgChars[i] = 46
    /\ \E i \in 1..Len(SvgChars) : SvgChars[i] = 97
    /\ \E i \in 1..Len(SvgChars) : SvgChars[i] = 57

\* The runs of white space of cs that lie between two characters that are not
\* white space, counted by where each run starts.
InteriorRuns(cs) ==
    Cardinality({i \in 2..Len(cs) :
        /\ WhiteSpaceChar(cs[i])
        /\ ~WhiteSpaceChar(cs[i - 1])
        /\ \E j \in (i + 1)..Len(cs) : ~WhiteSpaceChar(cs[j])})

\* C5: every interior run of white space is exactly one %20 of the payload: no
\* two %20 in a row, no escaped white space other than %20, no %20 at either end.
C5_Collapsed ==
    pc = "returned" =>
        /\ Occurrences(Payload, SpaceEscape) = InteriorRuns(SvgChars)
        /\ Occurrences(Payload, SpaceEscape \o SpaceEscape) = 0
        /\ Occurrences(Payload, <<37, 48, 57>>) = 0
        /\ Occurrences(Payload, <<37, 48, 65>>) = 0
        /\ Occurrences(Payload, <<37, 48, 68>>) = 0
        /\ \A c \in {Chars(PercentDecode(Payload))[i] :
                        i \in 1..Len(Chars(PercentDecode(Payload)))} :
              WhiteSpaceChar(c) => c = 32
        /\ ~StartsWith(Payload, SpaceEscape)
        /\ ~EndsWith(Payload, SpaceEscape)

C5_Witness ==
    /\ pc = "returned"
    /\ Len(SvgChars) = 4
    /\ ~WhiteSpaceChar(SvgChars[1])
    /\ SvgChars[2] = 10
    /\ SvgChars[3] = 32
    /\ ~WhiteSpaceChar(SvgChars[4])
    /\ Occurrences(Payload, SpaceEscape) = 1

\* C6: the second application of the normalization step changes nothing.
C6_Idempotent == [][applied = 1 => text' = text]_vars

C6_Witness ==
    /\ applied = 2
    /\ Len(Chars(original)) = 4
    /\ Len(text) = 3
    /\ Occurrences(text, <<32>>) = 1

\* How often U+FEFF occurs in cs after its first character.
LaterBoms(cs) == Cardinality({i \in 2..Len(cs) : cs[i] = BOM})

\* C10: only the first character is looked at: every later U+FEFF is in the
\* output as %EF%BB%BF, and an input that does not start with U+FEFF goes to
\* the trimming step as it is.
C10_OnlyFirstChar ==
    pc # "start" =>
        /\ pc = "returned"
        /\ Occurrences(Payload, BomEscape) = LaterBoms(SvgChars)
        /\ ~LeadingBom => result = Pipeline(svg)

\* "data:image/png;base64," and "data:image/jpeg;base64,"
PngUriPrefix ==
    <<100, 97, 116, 97, 58, 105, 109, 97, 103, 101, 47, 112, 110, 103,
      59, 98, 97, 115, 101, 54, 52, 44>>
JpegUriPrefix ==
    <<100, 97, 116, 97, 58, 105, 109, 97, 103, 101, 47, 106, 112, 101,
      103, 59, 98, 97, 115, 101, 54, 52, 44>>

\* The six bits a base64 character stands for, -1 for any other byte.
Base64Value(c) ==
    IF 65 <= c /\ c <= 90 THEN c - 65
    ELSE IF 97 <= c /\ c <= 122 THEN c - 71
    ELSE IF 48 <= c /\ c <= 57 THEN c + 4
    ELSE IF c = 43 THEN 62
    ELSE IF c = 47 THEN 63 ELSE -1

\* Standard base64 with padding and no line wraps: groups of four characters,
\* '=' only as the last one or two characters of the last group.
WellFormedBase64(p) ==
    /\ Len(p) % 4 = 0
    /\ \A i \in 1..Len(p) :
          \/ Base64Value(p[i]) >= 0
          \/ /\ p[i] = 61
             /\ i >= Len(p) - 1
             /\ (i = Len(p) - 1 => p[Len(p)] = 61)

\* The bytes a well-formed base64 string stands for.
RECURSIVE Base64Decode(_)
Base64Decode(p) ==
    IF Len(p) < 4 THEN <<>>
    ELSE LET a == Base64Value(p[1])
             b == Base64Value(p[2])
             c == Base64Value(p[3])
             d == Base64Value(p[4])
             first == a * 4 + b \div 16
             second == (b % 16) * 16 + c \div 4
             third == (c % 4) * 64 + d
         IN  (IF p[3] = 61 THEN <<first>>
              ELSE IF p[4] = 61 THEN <<first, second>>
              ELSE <<first, second, third>>)
             \o Base64Decode(SubSeq(p, 5, Len(p)))

\* The prefix the function called has to put in front.
UriPrefix == IF called = "png" THEN PngUriPrefix ELSE JpegUriPrefix

\* C8: a raster call ends in one of two ways.  When the codec reports an error,
\* that error is returned, after one invocation of the encoder and with no
\* string; when it succeeds, the string returned is the whole prefix followed by
\* the base64 of every byte written.
C8_ErrorOrWholeUri ==
    called \in {"png", "jpeg"} =>
        /\ encoderCalls = 1
        /\ IF codec.err # "none"
           THEN ret = [kind |-> "err", val |-> <<>>, err |-> codec.err]
           ELSE /\ ret.kind = "ok"
                /\ ret.err = "none"
                /\ StartsWith(ret.val, UriPrefix)
                /\ WellFormedBase64(After(ret.val, Len(UriPrefix)))
                /\ Len(ret.val) = Len(UriPrefix) + 4 * ((Len(codec.written) + 2) \div 3)
                /\ Base64Decode(After(ret.val, Len(UriPrefix))) = codec.written

C8_Witness ==
    /\ called = "png"
    /\ codec.err = "Encoding"
    /\ Len(codec.written) = 2
    /\ ret.kind = "err"

\* What the call of thread t gives when it runs alone.
Alone(t) == svg_str_to_data_uri(targ[t])

\* Whenever a thread holds the pattern, the pattern was constructed, once, and
\* its construction had completed; every call that ended ended as it does alone.
C9_State ==
    /\ inits <= 1
    /\ (inits = 0) = (onceValue = Uninit)
    /\ onceState = "complete" => (inits = 1 /\ onceValue = WhitespacesPattern)
    /\ \A t \in Threads :
          /\ tpc[t] \in {"replace", "returned"} =>
                (onceState = "complete" /\ tre[t] = WhitespacesPattern)
          /\ tpc[t] = "returned" => (~Alone(t).panic /\ tres[t] = Alone(t).val)
          /\ tpc[t] = "panicked" => Alone(t).panic

\* C9: under every interleaving WHITESPACES_REGEX is constructed exactly once,
\* on first use; nobody reads it before its construction has completed; it is
\* never written after initialization; and every call returns what it returns
\* when run alone.
C9_InitOnce ==
    /\ []C9_State
    /\ [][onceState = "complete" =>
             (onceState' = "complete" /\ onceValue' = onceValue /\ inits' = inits)]_vars
    /\ [][inits' # inits => (inits = 0 /\ onceState = "running")]_vars

C9_Witness ==
    /\ \A t \in Threads : tpc[t] = "returned"
    /\ \E t \in Threads : targ[t] = <<32, 97, 10, 10, 97>>
    /\ inits = 1

====
